---- MODULE Spec2Model ----
(***************************************************************************)
(* A model of api/models.py of mwa2: the Plist pseudo-model, which maps a  *)
(* (kind, pathname) pair to a file under REPO_DIR and lists, creates,      *)
(* reads, writes and deletes property lists there, logging each outcome    *)
(* and mirroring each mutation into git through MunkiGit.                  *)
(*                                                                         *)
(* The file system is a set of directories and a map from file paths to    *)
(* their bytes.  A path is the sequence of its segments.  Bytes are a      *)
(* sequence of chunks: a markup token [tag |-> ..], a run of ASCII text    *)
(* [ascii |-> ..] or one byte above 127, [byte |-> n].  A unicode text is  *)
(* a sequence of ASCII runs and code points [cp |-> n].                    *)
(*                                                                         *)
(* Spec has one caller, whose calls run one after the other, each as one  *)
(* step.  RaceSpec has two callers whose calls overlap: a step there is   *)
(* one file system call of a method with the statements up to the next.   *)
(***************************************************************************)
EXTENDS Integers, Sequences, FiniteSets, TLC

VARIABLES
    dirs,      \* the directories that exist (absolute paths)
    files,     \* path of each regular file |-> its bytes
    git,       \* GIT: whether settings.GIT_PATH is configured
    call,      \* the most recent call: its method and arguments
    ret,       \* what that call gave its caller: a value or an exception
    effects,   \* what that call did, in order: file system calls, log
               \* entries, MunkiGit calls
    ncalls,    \* the number of calls made so far
    callers    \* for callers whose calls overlap: each one's call, the
               \* statement it is at, its result and what it did

vars == <<dirs, files, git, call, ret, effects, ncalls, callers>>

\* The number of calls a behaviour makes.
MaxCalls == 3

-----------------------------------------------------------------------------
(* Sequences and paths *)

RECURSIVE Flatten(_)
Flatten(ss) ==
    IF ss = <<>> THEN <<>> ELSE Head(ss) \o Flatten(Tail(ss))

Range(s) == {s[i] : i \in DOMAIN s}

IsPrefix(p, q) == Len(p) <= Len(q) /\ SubSeq(q, 1, Len(p)) = p

\* os.path.dirname of a path of at least one segment
Dirname(p) == SubSeq(p, 1, Len(p) - 1)

\* the last segment of a path
Basename(p) == p[Len(p)]

-----------------------------------------------------------------------------
(* The property list codec: plistlib of Python 2 *)

Tag(t) == [tag |-> t]
Ascii(s) == [ascii |-> s]
Byte(n) == [byte |-> n]
CodePoint(n) == [cp |-> n]

IsTag(c) == "tag" \in DOMAIN c
IsAsciiRun(c) == "ascii" \in DOMAIN c
IsByte(c) == "byte" \in DOMAIN c
IsCodePoint(c) == "cp" \in DOMAIN c

\* unicode.encode('utf-8') of one chunk, for code points below 0x800
Utf8Chunk(c) ==
    IF IsCodePoint(c)
    THEN IF c.cp < 128 THEN <<Byte(c.cp)>>
         ELSE <<Byte(192 + (c.cp \div 64)), Byte(128 + (c.cp % 64))>>
    ELSE <<c>>

Utf8Encode(text) == Flatten([i \in DOMAIN text |-> Utf8Chunk(text[i])])

\* str.decode('utf-8'): [ok, text]; not ok for bytes that are not UTF-8
RECURSIVE Utf8Decode(_)
Utf8Decode(bytes) ==
    IF bytes = <<>> THEN [ok |-> TRUE, text |-> <<>>]
    ELSE LET c == Head(bytes) IN
         IF IsAsciiRun(c)
         THEN LET rest == Utf8Decode(Tail(bytes)) IN
              [ok |-> rest.ok, text |-> <<c>> \o rest.text]
         ELSE IF /\ IsByte(c) /\ c.byte >= 192 /\ c.byte < 224
                 /\ Len(bytes) >= 2 /\ IsByte(bytes[2])
                 /\ bytes[2].byte >= 128 /\ bytes[2].byte < 192
         THEN LET rest == Utf8Decode(Tail(Tail(bytes))) IN
              [ok |-> rest.ok,
               text |-> <<CodePoint((c.byte - 192) * 64 + (bytes[2].byte - 128))>>
                            \o rest.text]
         ELSE [ok |-> FALSE, text |-> <<>>]

\* Whether str.decode('ascii') accepts the bytes: none is above 127.
IsAsciiBytes(bytes) == \A i \in DOMAIN bytes : ~IsByte(bytes[i])

\* The keys the records of the model use, in the order plistlib writes them
\* (sorted).
KeyOrder ==
    <<"catalogs", "description", "display_name", "included_manifests",
      "managed_installs", "managed_uninstalls", "managed_updates", "name",
      "optional_installs", "version">>

\* A value of a record is a string or a list of strings.
Str(text) == [type |-> "string", body |-> <<text>>]
Array(texts) == [type |-> "array", body |-> texts]

StringElement(text) == <<Tag("string")>> \o Utf8Encode(text) \o <<Tag("/string")>>

ValueElement(v) ==
    IF v.type = "string" THEN StringElement(v.body[1])
    ELSE <<Tag("array")>>
             \o Flatten([i \in DOMAIN v.body |-> StringElement(v.body[i])])
             \o <<Tag("/array")>>

DictItem(plist, k) ==
    <<Tag("key"), Ascii(k), Tag("/key")>> \o ValueElement(plist[k])

\* plistlib.writePlistToString(plist), for a dict of strings and lists
writePlistToString(plist) ==
    LET keys == SelectSeq(KeyOrder, LAMBDA k : k \in DOMAIN plist)
    IN <<Tag("plist"), Tag("dict")>>
           \o Flatten([i \in DOMAIN keys |-> DictItem(plist, keys[i])])
           \o <<Tag("/dict"), Tag("/plist")>>

\* The place of the first markup token at or after i, Len + 1 if none.
NextTag(bytes, i) ==
    LET at == {j \in i..Len(bytes) : IsTag(bytes[j])}
    IN IF at = {} THEN Len(bytes) + 1
       ELSE CHOOSE j \in at : \A k \in at : j <= k

TagAt(bytes, i, t) == i \in DOMAIN bytes /\ bytes[i] = Tag(t)

\* The parser stops at markup that is not well formed: expat raises
\* ExpatError.
ParseFailed == [ok |-> FALSE, next |-> 0, val |-> <<>>, error |-> "ExpatError"]

\* The parser stops in a handler: PlistParser.addObject has a value for a dict
\* and no key, and calls append on the dict, which raises AttributeError.
NoKeyFailed == [ok |-> FALSE, next |-> 0, val |-> <<>>, error |-> "AttributeError"]

\* <string>..</string> at i: [ok, next, val], val the text
ParseString(bytes, i) ==
    LET j == NextTag(bytes, i + 1)
        text == Utf8Decode(SubSeq(bytes, i + 1, j - 1))
    IN IF TagAt(bytes, i, "string") /\ TagAt(bytes, j, "/string") /\ text.ok
       THEN [ok |-> TRUE, next |-> j + 1, val |-> text.text]
       ELSE ParseFailed

\* the strings of an array up to </array>: [ok, next, val], val the texts
RECURSIVE ParseStrings(_, _)
ParseStrings(bytes, i) ==
    IF TagAt(bytes, i, "/array") THEN [ok |-> TRUE, next |-> i + 1, val |-> <<>>]
    ELSE LET s == ParseString(bytes, i) IN
         IF ~s.ok THEN ParseFailed
         ELSE LET rest == ParseStrings(bytes, s.next) IN
              IF ~rest.ok THEN ParseFailed
              ELSE [ok |-> TRUE, next |-> rest.next, val |-> <<s.val>> \o rest.val]

ParseValue(bytes, i) ==
    IF TagAt(bytes, i, "string")
    THEN LET s == ParseString(bytes, i) IN
         [ok |-> s.ok, next |-> s.next, val |-> Str(s.val)]
    ELSE IF TagAt(bytes, i, "array")
    THEN LET a == ParseStrings(bytes, i + 1) IN
         [ok |-> a.ok, next |-> a.next, val |-> Array(a.val)]
    ELSE ParseFailed

\* the items of a dict up to </dict>: [ok, next, val], val the <<key, value>>
\* pairs in the order read
RECURSIVE ParseItems(_, _)
ParseItems(bytes, i) ==
    IF TagAt(bytes, i, "/dict") THEN [ok |-> TRUE, next |-> i + 1, val |-> <<>>]
    ELSE IF /\ TagAt(bytes, i, "key") /\ i + 1 \in DOMAIN bytes
            /\ IsAsciiRun(bytes[i + 1]) /\ TagAt(bytes, i + 2, "/key")
    THEN LET v == ParseValue(bytes, i + 3) IN
         IF ~v.ok THEN ParseFailed
         ELSE LET rest == ParseItems(bytes, v.next) IN
              IF ~rest.ok THEN rest
              ELSE [ok |-> TRUE, next |-> rest.next,
                    val |-> <<<<bytes[i + 1].ascii, v.val>>>> \o rest.val]
    ELSE IF TagAt(bytes, i, "array") \/ ParseString(bytes, i).ok
    THEN NoKeyFailed
    ELSE ParseFailed

\* The dict of a sequence of <<key, value>> pairs; a later pair wins.
DictOf(pairs) ==
    [k \in {pairs[i][1] : i \in DOMAIN pairs} |->
        LET at == {i \in DOMAIN pairs : pairs[i][1] = k}
        IN pairs[CHOOSE i \in at : \A j \in at : j <= i][2]]

\* plistlib.readPlistFromString(bytes): [ok, plist, error]; when not ok, error
\* is the exception the parser raises: the ExpatError of a document that is not
\* well formed, or what a handler of PlistParser raises on the way.
PlistOf(bytes, items) ==
    IF ~items.ok
    THEN [ok |-> FALSE, plist |-> <<>>, error |-> items.error]
    ELSE IF TagAt(bytes, items.next, "/plist") /\ items.next = Len(bytes)
    THEN [ok |-> TRUE, plist |-> DictOf(items.val), error |-> "none"]
    ELSE [ok |-> FALSE, plist |-> <<>>, error |-> "ExpatError"]

ParsePlist(bytes) ==
    IF ~(TagAt(bytes, 1, "plist") /\ TagAt(bytes, 2, "dict"))
    THEN [ok |-> FALSE, plist |-> <<>>, error |-> "ExpatError"]
    ELSE PlistOf(bytes, ParseItems(bytes, 3))

-----------------------------------------------------------------------------
(* The file system *)

\* settings.MUNKI_REPO_DIR
REPO_DIR == <<"repo">>

\* os.path.join(base, pathname).  A path is the list of its segments from the
\* root of the file system on; a pathname that begins with a separator has ""
\* for its first segment, and join drops base for it.
Join(base, pathname) ==
    IF pathname # <<>> /\ Head(pathname) = "" THEN Tail(pathname)
    ELSE base \o pathname

\* a check for a directory where the code checks for anything at the path
ExistsAsDirectory(p) == p \in dirs

\* os.path.exists(p)
Exists(p) == p \in dirs \/ p \in DOMAIN files

\* The directories os.makedirs(p) has to make: p and its ancestors that are
\* not there.
MissingDirs(p) == {SubSeq(p, 1, i) : i \in 1..Len(p)} \ dirs

\* Whether os.makedirs(p) can make them: p is not there yet (mkdir of the
\* leaf raises EEXIST) and none of them is a regular file.
CanMakedirs(p) == p \notin dirs /\ MissingDirs(p) \cap DOMAIN files = {}

\* What open(p, 'w') does to p when it succeeds
Opening(p) == IF p \in DOMAIN files THEN "truncate" ELSE "create"

\* The names in directory d
Listdir(d) == {Basename(p) : p \in {q \in dirs \cup DOMAIN files :
                                      Len(q) = Len(d) + 1 /\ IsPrefix(d, q)}}

\* A set of names as a list, in the order os.listdir happens to give them
RECURSIVE ListOf(_)
ListOf(S) ==
    IF S = {} THEN <<>>
    ELSE LET x == CHOOSE y \in S : TRUE IN <<x>> \o ListOf(S \ {x})

-----------------------------------------------------------------------------
(* What a call does besides changing the file system *)

None == <<>>
Some(x) == <<x>>

\* A file system call, a log entry or a MunkiGit call, with whether it
\* succeeded.
Effect(what, path, arg, ok) == [what |-> what, path |-> path, arg |-> arg, ok |-> ok]

Info(msg, kind, pathname) == Effect("LOGGER.info", <<kind>> \o pathname, msg, TRUE)

\* a failure logged at info severity
ErrorAtInfo(msg, kind, pathname) ==
    Effect("LOGGER.info", <<kind>> \o pathname, msg, TRUE)
Error(msg, kind, pathname) == Effect("LOGGER.error", <<kind>> \o pathname, msg, TRUE)

Returned(value) == [status |-> "returned", value |-> value]

\* an exception that reaches the caller as the file system raised it
RaisedUnwrapped(exception) == [status |-> "IOError", value |-> None]
Raised(exception) == [status |-> exception, value |-> None]

\* The outcome of a call: the file system after it, what it gave its caller,
\* what it did, and whether the fault of the environment was met.
Outcome(d, f, r, e, met) == [dirs |-> d, files |-> f, ret |-> r, effects |-> e, met |-> met]

\* a recorder call that does not look at the user
UserIgnored(user) == TRUE

\* Python's truth value of the user and plist_data arguments
UserGiven(user) == user # None /\ user[1] # ""
PlistGiven(plist_data) == plist_data # None /\ DOMAIN plist_data[1] # {}

\* a file opened for appending where the code opens it for writing
PutAppending(p, bytes) ==
    [q \in DOMAIN files \cup {p} |->
        IF q # p THEN files[q]
        ELSE IF p \in DOMAIN files THEN files[p] \o bytes ELSE bytes]

\* the parent directory unlinked where the code unlinks the file
RemoveParent(p) == [q \in DOMAIN files \ {Dirname(p)} |-> files[q]]

\* a file created only where there is none, its bytes kept otherwise
PutIfAbsent(p, bytes) ==
    [q \in DOMAIN files \cup {p} |->
        IF q = p /\ p \notin DOMAIN files THEN bytes ELSE files[q]]

\* The files with p holding bytes
Put(p, bytes) == [q \in DOMAIN files \cup {p} |-> IF q = p THEN bytes ELSE files[q]]

\* The files without p
Remove(p) == [q \in DOMAIN files \ {p} |-> files[q]]

\* The environment's part in a call: the file system call it makes fail
\* ("none": no call fails unless the file system's state makes it), and how
\* MunkiGit's call ends ("ok", or "OSError": it raises IOError or OSError, as
\* when git cannot be run).  A choice counts only in a call that gets as far
\* as meeting it.
Met(fault, hit, recorder, recorded) ==
    (fault = "none" \/ hit) /\ (recorder = "ok" \/ recorded)

-----------------------------------------------------------------------------
(* Plist.new *)

\* a skeleton with one section missing and another catalog
SkeletonOff(kind) ==
    IF kind = "manifests"
    THEN [section \in {"catalogs", "included_manifests", "managed_installs",
                       "managed_uninstalls", "managed_updates"} |-> Array(<<>>)]
    ELSE [name |-> Str(<<Ascii("ProductName")>>),
          display_name |-> Str(<<Ascii("Display Name")>>),
          description |-> Str(<<Ascii("Product description")>>),
          version |-> Str(<<Ascii("1.0")>>),
          catalogs |-> Array(<<<<Ascii("testing")>>>>)]

\* the "useful empty plist" of a kind
Skeleton(kind) ==
    IF kind = "manifests"
    THEN [section \in {"catalogs", "included_manifests", "managed_installs",
                       "managed_uninstalls", "managed_updates",
                       "optional_installs"} |-> Array(<<>>)]
    ELSE [name |-> Str(<<Ascii("ProductName")>>),
          display_name |-> Str(<<Ascii("Display Name")>>),
          description |-> Str(<<Ascii("Product description")>>),
          version |-> Str(<<Ascii("1.0")>>),
          catalogs |-> Array(<<<<Ascii("development")>>>>)]

\* the plist new serializes
NewPlist(kind, plist_data) ==
    IF PlistGiven(plist_data) THEN plist_data[1] ELSE Skeleton(kind)

NewOutcome(kind, pathname, user, plist_data, fault, recorder) ==
    LET kind_dir == Join(REPO_DIR, <<kind>>)
        filepath == Join(kind_dir, pathname)
        plist_parent_dir == Dirname(filepath)
        needdirs == ~Exists(plist_parent_dir)
        madedirs == needdirs /\ fault # "makedirs" /\ CanMakedirs(plist_parent_dir)
        dirs1 == IF madedirs THEN dirs \cup MissingDirs(plist_parent_dir) ELSE dirs
        e1 == IF needdirs
              THEN <<Effect("os.makedirs", plist_parent_dir, None, madedirs)>>
              ELSE <<>>
        data == writePlistToString(NewPlist(kind, plist_data))
        opened == fault # "open" /\ plist_parent_dir \in dirs1 /\ filepath \notin dirs1
        e2 == e1 \o <<Effect("open", filepath, Opening(filepath), opened)>>
        written == fault # "write"
        e3 == e2 \o <<Effect("write", filepath, None, written)>>
        e4 == e3 \o <<Info("Created", kind, pathname)>>
        e5 == e4 \o <<Effect("add_file_at_path", filepath, user, recorder = "ok")>>
        failed == <<Error("Create failed", kind, pathname)>>
    IN IF Exists(filepath)
       THEN Outcome(dirs, files, Raised("PlistAlreadyExistsError"), <<>>,
                    Met(fault, FALSE, recorder, FALSE))
       ELSE IF needdirs /\ ~madedirs
       THEN Outcome(dirs, files, Raised("PlistWriteError"), e1 \o failed,
                    Met(fault, fault = "makedirs", recorder, FALSE))
       ELSE IF ~opened
       THEN Outcome(dirs1, files, Raised("PlistWriteError"), e2 \o failed,
                    Met(fault, fault = "open", recorder, FALSE))
       ELSE IF ~IsAsciiBytes(data)
       \* data.encode('utf-8') decodes the str as ASCII first
       THEN Outcome(dirs1, Put(filepath, <<>>), Raised("UnicodeDecodeError"), e2,
                    Met(fault, FALSE, recorder, FALSE))
       ELSE IF ~written
       THEN Outcome(dirs1, Put(filepath, <<>>), Raised("PlistWriteError"),
                    e3 \o failed, Met(fault, TRUE, recorder, FALSE))
       ELSE IF ~(UserGiven(user) /\ git)
       THEN Outcome(dirs1, Put(filepath, data), Returned(data), e4,
                    Met(fault, FALSE, recorder, FALSE))
       ELSE IF recorder = "ok"
       THEN Outcome(dirs1, Put(filepath, data), Returned(data), e5,
                    Met(fault, FALSE, recorder, TRUE))
       ELSE Outcome(dirs1, Put(filepath, data), Raised("PlistWriteError"),
                    e5 \o failed, Met(fault, FALSE, recorder, TRUE))

-----------------------------------------------------------------------------
(* Plist.read *)

\* What read gives its caller for what plistlib.readPlist gave or raised
ReadResult(parsed) ==
    IF parsed.ok THEN Returned(parsed.plist)
    \* could not parse, return empty dict
    ELSE IF parsed.error = "ExpatError" THEN Returned(<<>>)
    \* neither except clause catches it
    ELSE Raised(parsed.error)

\* a read without the check that the file is there
ReadUnchecked(kind, pathname, fault) ==
    LET filepath == Join(Join(REPO_DIR, <<kind>>), pathname)
        opened == fault # "read" /\ filepath \in DOMAIN files
        e1 == <<Effect("readPlist", filepath, None, opened)>>
    IN IF ~opened
       THEN Outcome(dirs, files, Raised("PlistReadError"),
                    e1 \o <<Error("Read failed", kind, pathname)>>,
                    Met(fault, fault = "read", "ok", FALSE))
       ELSE Outcome(dirs, files, ReadResult(ParsePlist(files[filepath])), e1,
                    Met(fault, FALSE, "ok", FALSE))

ReadOutcome(kind, pathname, fault) ==
    LET kind_dir == Join(REPO_DIR, <<kind>>)
        filepath == Join(kind_dir, pathname)
        opened == fault # "read" /\ filepath \notin dirs
        e1 == <<Effect("readPlist", filepath, None, opened)>>
    IN IF ~Exists(filepath)
       THEN Outcome(dirs, files, Raised("PlistDoesNotExistError"), <<>>,
                    Met(fault, FALSE, "ok", FALSE))
       ELSE IF ~opened
       THEN Outcome(dirs, files, Raised("PlistReadError"),
                    e1 \o <<Error("Read failed", kind, pathname)>>,
                    Met(fault, fault = "read", "ok", FALSE))
       ELSE Outcome(dirs, files, ReadResult(ParsePlist(files[filepath])), e1,
                    Met(fault, FALSE, "ok", FALSE))

-----------------------------------------------------------------------------
(* Plist.write *)

WriteOutcome(data, kind, pathname, user, fault, recorder) ==
    LET kind_dir == Join(REPO_DIR, <<kind>>)
        filepath == Join(kind_dir, pathname)
        plist_parent_dir == Dirname(filepath)
        needdirs == ~Exists(plist_parent_dir)
        madedirs == needdirs /\ fault # "makedirs" /\ CanMakedirs(plist_parent_dir)
        dirs1 == IF madedirs THEN dirs \cup MissingDirs(plist_parent_dir) ELSE dirs
        e1 == IF needdirs
              THEN <<Effect("os.makedirs", plist_parent_dir, None, madedirs)>>
              ELSE <<>>
        opened == fault # "open" /\ plist_parent_dir \in dirs1 /\ filepath \notin dirs1
        e2 == e1 \o <<Effect("open", filepath, Opening(filepath), opened)>>
        written == fault # "write"
        e3 == e2 \o <<Effect("write", filepath, None, written)>>
        e4 == e3 \o <<Info("Wrote", kind, pathname)>>
        e5 == e4 \o <<Effect("add_file_at_path", filepath, user, recorder = "ok")>>
    IN IF needdirs /\ ~madedirs
       THEN Outcome(dirs, files, Raised("PlistWriteError"),
                    e1 \o <<Error("Create failed", kind, pathname)>>,
                    Met(fault, fault = "makedirs", recorder, FALSE))
       ELSE IF ~opened
       THEN Outcome(dirs1, files, Raised("PlistWriteError"),
                    e2 \o <<Error("Write failed", kind, pathname)>>,
                    Met(fault, fault = "open", recorder, FALSE))
       ELSE IF ~written
       THEN Outcome(dirs1, Put(filepath, <<>>), Raised("PlistWriteError"),
                    e3 \o <<Error("Write failed", kind, pathname)>>,
                    Met(fault, TRUE, recorder, FALSE))
       ELSE IF ~(UserGiven(user) /\ git)
       THEN Outcome(dirs1, Put(filepath, data), Returned(None), e4,
                    Met(fault, FALSE, recorder, FALSE))
       ELSE IF recorder = "ok"
       THEN Outcome(dirs1, Put(filepath, data), Returned(None), e5,
                    Met(fault, FALSE, recorder, TRUE))
       ELSE Outcome(dirs1, Put(filepath, data), Raised("PlistWriteError"),
                    e5 \o <<Error("Write failed", kind, pathname)>>,
                    Met(fault, FALSE, recorder, TRUE))

-----------------------------------------------------------------------------
(* Plist.delete *)

\* a delete that logs 'Deleted' before it unlinks the file
DeleteLogsFirst(kind, pathname, user, fault, recorder) ==
    LET filepath == Join(Join(REPO_DIR, <<kind>>), pathname)
        unlinked == fault # "unlink" /\ filepath \notin dirs
        e1 == <<Info("Deleted", kind, pathname),
                Effect("os.unlink", filepath, None, unlinked)>>
        e2 == IF UserGiven(user) /\ git
              THEN e1 \o <<Effect("delete_file_at_path", filepath, user, TRUE)>>
              ELSE e1
    IN IF ~Exists(filepath)
       THEN Outcome(dirs, files, Raised("PlistDoesNotExistError"), <<>>,
                    Met(fault, FALSE, recorder, FALSE))
       ELSE IF ~unlinked
       THEN Outcome(dirs, files, Raised("PlistDeleteError"),
                    e1 \o <<Error("Delete failed", kind, pathname)>>,
                    Met(fault, fault = "unlink", recorder, FALSE))
       ELSE Outcome(dirs, Remove(filepath), Returned(None), e2,
                    Met(fault, FALSE, recorder, FALSE))

DeleteOutcome(kind, pathname, user, fault, recorder) ==
    LET kind_dir == Join(REPO_DIR, <<kind>>)
        filepath == Join(kind_dir, pathname)
        unlinked == fault # "unlink" /\ filepath \notin dirs
        e1 == <<Effect("os.unlink", filepath, None, unlinked)>>
        e2 == e1 \o <<Info("Deleted", kind, pathname)>>
        e3 == e2 \o <<Effect("delete_file_at_path", filepath, user, recorder = "ok")>>
        failed == <<Error("Delete failed", kind, pathname)>>
    IN IF ~Exists(filepath)
       THEN Outcome(dirs, files, Raised("PlistDoesNotExistError"), <<>>,
                    Met(fault, FALSE, recorder, FALSE))
       ELSE IF ~unlinked
       THEN Outcome(dirs, files, Raised("PlistDeleteError"), e1 \o failed,
                    Met(fault, fault = "unlink", recorder, FALSE))
       ELSE IF ~(UserGiven(user) /\ git)
       THEN Outcome(dirs, Remove(filepath), Returned(None), e2,
                    Met(fault, FALSE, recorder, FALSE))
       ELSE IF recorder = "ok"
       THEN Outcome(dirs, Remove(filepath), Returned(None), e3,
                    Met(fault, FALSE, recorder, TRUE))
       ELSE Outcome(dirs, Remove(filepath), Raised("PlistDeleteError"),
                    e3 \o failed, Met(fault, FALSE, recorder, TRUE))

-----------------------------------------------------------------------------
(* Plist.list *)

\* a list of directories to skip that misses one
skipdirsShort == {".svn", ".git"}

skipdirs == {".svn", ".git", ".AppleDouble"}

\* name.startswith('.')
StartsWithDot(name) ==
    name \in {".DS_Store", ".svn", ".git", ".AppleDouble"}

\* dirpath[len(kind_dir):], a string, as the list of its parts between
\* separators: "" is <<>> and "/apps" is <<"", "apps">>
Subdir(kind_dir, dirpath) ==
    IF Len(dirpath) = Len(kind_dir) THEN <<>>
    ELSE <<"">> \o SubSeq(dirpath, Len(kind_dir) + 1, Len(dirpath))

\* s.lstrip('/')
RECURSIVE LStrip(_)
LStrip(s) == IF s # <<>> /\ Head(s) = "" THEN LStrip(Tail(s)) ELSE s

\* the directories os.walk still descends into from dirpath, after the loop
\* body has removed the skipdirs from dirnames
WalkInto(dirpath) ==
    {name \in Listdir(dirpath) : Join(dirpath, <<name>>) \in dirs} \ skipdirs

\* what the loop body adds to plists at dirpath
PlistsAt(kind_dir, dirpath) ==
    LET names == ListOf({name \in Listdir(dirpath) :
                           Join(dirpath, <<name>>) \in DOMAIN files})
        filenames == SelectSeq(names, LAMBDA name : ~StartsWithDot(name))
    IN [i \in DOMAIN filenames |->
           LStrip(Join(Subdir(kind_dir, dirpath), <<filenames[i]>>))]

\* the loop over os.walk(kind_dir) from dirpath on, top down
RECURSIVE WalkFrom(_, _)
WalkFrom(kind_dir, dirpath) ==
    LET dirnames == ListOf(WalkInto(dirpath))
    IN PlistsAt(kind_dir, dirpath)
           \o Flatten([i \in DOMAIN dirnames |->
                          WalkFrom(kind_dir, Join(dirpath, <<dirnames[i]>>))])

ListOutcome(kind) ==
    LET kind_dir == Join(REPO_DIR, <<kind>>)
        plists == IF kind_dir \in dirs THEN WalkFrom(kind_dir, kind_dir) ELSE <<>>
    IN Outcome(dirs, files, Returned(plists),
               <<Effect("os.walk", kind_dir, None, kind_dir \in dirs)>>, TRUE)

-----------------------------------------------------------------------------
(* The calls *)

Kinds == {"manifests", "pkgsinfo"}

\* "/repo/pkgsinfo/munki/munkitools"
AbsolutePath == <<"", "repo", "pkgsinfo", "munki", "munkitools">>

PathNames ==
    {<<"apps">>, <<"apps", "mozilla", "Firefox">>, <<".git", "config">>,
     AbsolutePath}

Users == {None, Some("alice")}

\* a plist of ASCII strings and one of a string with U+00E9
AsciiPlist == [name |-> Str(<<Ascii("Firefox")>>), catalogs |-> Array(<<<<Ascii("testing")>>>>)]
UnicodePlist == [name |-> Str(<<Ascii("Caf"), CodePoint(233)>>)]

\* the plist_data arguments of new: omitted, an empty dict, a dict
PlistDatas == {None, Some(<<>>), Some(AsciiPlist), Some(UnicodePlist)}

\* a document that is not well formed
Garbage == <<Tag("plist"), Tag("dict"), Ascii("oops")>>

\* a well-formed document with a value in its dict that has no key
Keyless ==
    <<Tag("plist"), Tag("dict"), Tag("string"), Ascii("oops"), Tag("/string"),
      Tag("/dict"), Tag("/plist")>>

\* the data arguments of write
Datas == {writePlistToString(UnicodePlist), Garbage, Keyless}

\* What the environment can do to a call: make one file system call fail, or
\* make MunkiGit's call fail.
Calm == [fault |-> "none", recorder |-> "ok"]
Faulty(fault) == [fault |-> fault, recorder |-> "ok"]
GitFails == [fault |-> "none", recorder |-> "OSError"]

Invocation(method, kind, pathname, user, arg) ==
    [method |-> method, kind |-> kind, pathname |-> pathname, user |-> user,
     arg |-> arg]

\* the file a call is about
Filepath(c) == Join(Join(REPO_DIR, <<c.kind>>), c.pathname)

\* No call is running: the last one has returned to its caller.
Idle == Invocation("none", "", <<>>, None, None)

\* A call with its outcome: the state after it.
Do(invocation, outcome) ==
    /\ outcome.met
    /\ dirs' = outcome.dirs
    /\ files' = outcome.files
    /\ ret' = outcome.ret
    /\ effects' = outcome.effects
    /\ call' = invocation
    /\ ncalls' = ncalls + 1
    /\ UNCHANGED <<git, callers>>

list(kind) == Do(Invocation("list", kind, <<>>, None, None), ListOutcome(kind))

new(kind, pathname, user, plist_data) ==
    \E env \in {Calm, Faulty("makedirs"), Faulty("open"), Faulty("write"),
                 GitFails} :
        Do(Invocation("new", kind, pathname, user, plist_data),
           NewOutcome(kind, pathname, user, plist_data, env.fault, env.recorder))

read(kind, pathname) ==
    \E env \in {Calm, Faulty("read")} :
        Do(Invocation("read", kind, pathname, None, None),
           ReadOutcome(kind, pathname, env.fault))

write(data, kind, pathname, user) ==
    \E env \in {Calm, Faulty("makedirs"), Faulty("open"), Faulty("write"),
                 GitFails} :
        Do(Invocation("write", kind, pathname, user, Some(data)),
           WriteOutcome(data, kind, pathname, user, env.fault, env.recorder))

delete(kind, pathname, user) ==
    \E env \in {Calm, Faulty("unlink"), GitFails} :
        Do(Invocation("delete", kind, pathname, user, None),
           DeleteOutcome(kind, pathname, user, env.fault, env.recorder))

\* The caller has the call's result; the next call can start.
Return ==
    /\ call # Idle
    /\ call' = Idle
    /\ ret' = Returned(None)
    /\ effects' = <<>>
    /\ UNCHANGED <<dirs, files, git, ncalls, callers>>

\* The callers whose calls can overlap (two web requests)
Callers == {"request1", "request2"}

\* A caller that has made no call yet
Waiting ==
    [method |-> "none", kind |-> "", pathname |-> <<>>, user |-> None,
     arg |-> None, fault |-> "none", pc |-> "waiting", ret |-> Returned(None),
     effects |-> <<>>]

\* The repository before the first call: a checkout with no manifests yet,
\* one pkginfo, and the files version control and the Finder leave behind.
Checkout ==
    [dirs |-> {REPO_DIR, <<"repo", "pkgsinfo">>,
               <<"repo", "pkgsinfo", ".svn">>,
               <<"repo", "pkgsinfo", "munki">>,
               <<"repo", "pkgsinfo", "munki", ".AppleDouble">>},
     files |-> [p \in {<<"repo", "pkgsinfo", ".DS_Store">>,
                       <<"repo", "pkgsinfo", ".svn", "entries">>,
                       <<"repo", "pkgsinfo", "munki", "munkitools">>,
                       <<"repo", "pkgsinfo", "munki", ".AppleDouble", "munkitools">>}
                  |-> IF Basename(p) = "munkitools"
                      THEN writePlistToString(AsciiPlist)
                      ELSE <<Ascii("binary")>>]]

Init ==
    /\ dirs = Checkout.dirs
    /\ files = Checkout.files
    /\ git \in BOOLEAN
    /\ call = Idle
    /\ ret = Returned(None)
    /\ effects = <<>>
    /\ ncalls = 0
    /\ callers = [c \in Callers |-> Waiting]

\* A caller can make a call: calls do not overlap.
CanCall == call = Idle /\ ncalls < MaxCalls

ListCall == CanCall /\ \E kind \in Kinds : list(kind)

NewCall ==
    CanCall /\ \E kind \in Kinds, pathname \in PathNames, user \in Users,
                 plist_data \in PlistDatas : new(kind, pathname, user, plist_data)

ReadCall == CanCall /\ \E kind \in Kinds, pathname \in PathNames : read(kind, pathname)

WriteCall ==
    CanCall /\ \E data \in Datas, kind \in Kinds, pathname \in PathNames,
                 user \in Users : write(data, kind, pathname, user)

DeleteCall ==
    CanCall /\ \E kind \in Kinds, pathname \in PathNames, user \in Users :
                  delete(kind, pathname, user)

Next == ListCall \/ NewCall \/ ReadCall \/ WriteCall \/ DeleteCall \/ Return

Spec == Init /\ [][Next]_vars

\* Every file and directory but REPO_DIR is in a directory.
WellFormed ==
    /\ \A p \in (dirs \cup DOMAIN files) \ {REPO_DIR} : Dirname(p) \in dirs
    /\ dirs \cap DOMAIN files = {}

-----------------------------------------------------------------------------
(* Calls that overlap: the methods take no lock, so the file system calls of *)
(* two callers interleave.  A step is one statement that makes a file system *)
(* call, with the statements that follow it up to the next such call.        *)

\* the identifiers and arguments of the overlapping calls
RacePathNames == {<<"munki", "munkitools">>, <<"munki", "autopkg">>}

RaceCalls ==
    <<[method |-> "new", arg |-> None, fault |-> "none"],
      [method |-> "new", arg |-> Some(AsciiPlist), fault |-> "none"],
      [method |-> "write", arg |-> Some(Garbage), fault |-> "none"],
      [method |-> "read", arg |-> None, fault |-> "none"],
      [method |-> "read", arg |-> None, fault |-> "read"],
      [method |-> "delete", arg |-> None, fault |-> "none"]>>

\* The caller's call ends: it returns or raises.
Finish(c, r, e) ==
    callers' = [callers EXCEPT ![c].pc = "done", ![c].ret = r,
                               ![c].effects = @ \o e]

\* The caller goes on to the statement at pc.
Goto(c, pc, e) ==
    callers' = [callers EXCEPT ![c].pc = pc, ![c].effects = @ \o e]

\* the MunkiGit call of a mutation, if user and GIT
Recorded(what, c) ==
    IF UserGiven(callers[c].user) /\ git
    THEN <<Effect(what, Filepath(callers[c]), callers[c].user, TRUE)>>
    ELSE <<>>

\* A caller calls new, read, write or delete.
RaceCall(c) ==
    /\ callers[c].pc = "waiting"
    /\ \E kind \in Kinds, pathname \in RacePathNames, i \in DOMAIN RaceCalls :
           LET rc == RaceCalls[i] IN
           callers' = [callers EXCEPT ![c] =
               [method |-> rc.method, kind |-> kind, pathname |-> pathname,
                user |-> Some("alice"), arg |-> rc.arg, fault |-> rc.fault,
                pc |-> IF rc.method = "write" THEN "parent" ELSE "exists",
                ret |-> Returned(None), effects |-> <<>>]]
    /\ UNCHANGED <<dirs, files>>

\* os.path.exists(filepath) in new, read and delete
RaceExists(c) ==
    LET me == callers[c] IN
    /\ me.pc = "exists"
    /\ IF me.method = "new"
       THEN IF Exists(Filepath(me))
            THEN Finish(c, Raised("PlistAlreadyExistsError"), <<>>)
            ELSE Goto(c, "parent", <<>>)
       ELSE IF ~Exists(Filepath(me))
            THEN Finish(c, Raised("PlistDoesNotExistError"), <<>>)
            ELSE Goto(c, IF me.method = "read" THEN "readPlist" ELSE "os.unlink",
                      <<>>)
    /\ UNCHANGED <<dirs, files>>

\* os.path.exists(plist_parent_dir) in new and write
RaceParent(c) ==
    LET me == callers[c] IN
    /\ me.pc = "parent"
    /\ IF Exists(Dirname(Filepath(me)))
       THEN Goto(c, "open", <<>>)
       ELSE Goto(c, "os.makedirs", <<>>)
    /\ UNCHANGED <<dirs, files>>

\* os.makedirs(plist_parent_dir) in new and write
RaceMakedirs(c) ==
    LET me == callers[c]
        plist_parent_dir == Dirname(Filepath(me))
        made == CanMakedirs(plist_parent_dir)
        e1 == <<Effect("os.makedirs", plist_parent_dir, None, made)>>
    IN /\ me.pc = "os.makedirs"
       /\ IF made
          THEN /\ dirs' = dirs \cup MissingDirs(plist_parent_dir)
               /\ Goto(c, "open", e1)
          ELSE /\ dirs' = dirs
               /\ Finish(c, Raised("PlistWriteError"),
                         e1 \o <<Error("Create failed", me.kind, me.pathname)>>)
       /\ UNCHANGED files

\* the try block of new and write: open, write, log, MunkiGit
RaceOpen(c) ==
    LET me == callers[c]
        filepath == Filepath(me)
        data == IF me.method = "new"
                THEN writePlistToString(NewPlist(me.kind, me.arg))
                ELSE me.arg[1]
        opened == Dirname(filepath) \in dirs /\ filepath \notin dirs
        e1 == <<Effect("open", filepath, Opening(filepath), opened)>>
        e2 == e1 \o <<Effect("write", filepath, None, TRUE)>>
        msg == IF me.method = "new" THEN "Created" ELSE "Wrote"
        failed == IF me.method = "new" THEN "Create failed" ELSE "Write failed"
    IN /\ me.pc = "open"
       /\ IF ~opened
          THEN /\ files' = files
               /\ Finish(c, Raised("PlistWriteError"),
                         e1 \o <<Error(failed, me.kind, me.pathname)>>)
          ELSE IF me.method = "new" /\ ~IsAsciiBytes(data)
          THEN /\ files' = Put(filepath, <<>>)
               /\ Finish(c, Raised("UnicodeDecodeError"), e1)
          ELSE /\ files' = Put(filepath, data)
               /\ Finish(c, Returned(IF me.method = "new" THEN data ELSE None),
                         e2 \o <<Info(msg, me.kind, me.pathname)>>
                            \o Recorded("add_file_at_path", c))
       /\ UNCHANGED dirs

\* plistlib.readPlist(filepath) in read, with its except clauses
RaceRead(c) ==
    LET me == callers[c]
        filepath == Filepath(me)
        opened == me.fault # "read" /\ filepath \in DOMAIN files
        e1 == <<Effect("readPlist", filepath, None, opened)>>
    IN /\ me.pc = "readPlist"
       /\ IF ~opened
          THEN Finish(c, Raised("PlistReadError"),
                      e1 \o <<Error("Read failed", me.kind, me.pathname)>>)
          ELSE Finish(c, ReadResult(ParsePlist(files[filepath])), e1)
       /\ UNCHANGED <<dirs, files>>

\* the try block of delete: unlink, log, MunkiGit
RaceUnlink(c) ==
    LET me == callers[c]
        filepath == Filepath(me)
        unlinked == filepath \in DOMAIN files
        e1 == <<Effect("os.unlink", filepath, None, unlinked)>>
    IN /\ me.pc = "os.unlink"
       /\ IF ~unlinked
          THEN /\ files' = files
               /\ Finish(c, Raised("PlistDeleteError"),
                         e1 \o <<Error("Delete failed", me.kind, me.pathname)>>)
          ELSE /\ files' = Remove(filepath)
               /\ Finish(c, Returned(None),
                         e1 \o <<Info("Deleted", me.kind, me.pathname)>>
                            \o Recorded("delete_file_at_path", c))
       /\ UNCHANGED dirs

RaceInit ==
    /\ dirs = Checkout.dirs
    /\ files = Checkout.files
    /\ git \in BOOLEAN
    /\ call = Idle
    /\ ret = Returned(None)
    /\ effects = <<>>
    /\ ncalls = 0
    /\ callers = [c \in Callers |-> Waiting]

\* what the overlapping calls leave alone: the state of the calls made one
\* at a time
Apart == UNCHANGED <<git, call, ret, effects, ncalls>>

CallStep == Apart /\ \E c \in Callers : RaceCall(c)
ExistsStep == Apart /\ \E c \in Callers : RaceExists(c)
ParentStep == Apart /\ \E c \in Callers : RaceParent(c)
MakedirsStep == Apart /\ \E c \in Callers : RaceMakedirs(c)
OpenStep == Apart /\ \E c \in Callers : RaceOpen(c)
ReadStep == Apart /\ \E c \in Callers : RaceRead(c)
UnlinkStep == Apart /\ \E c \in Callers : RaceUnlink(c)

RaceNext ==
    CallStep \/ ExistsStep \/ ParentStep \/ MakedirsStep \/ OpenStep
        \/ ReadStep \/ UnlinkStep

RaceSpec == RaceInit /\ [][RaceNext]_vars

-----------------------------------------------------------------------------
(* The claims *)

\* the MunkiGit calls among the effects of a call
IsRecorderCall(e) == e.what \in {"add_file_at_path", "delete_file_at_path"}

\* C1: new on an identifier whose file exists fails with
\* PlistAlreadyExistsError and changes nothing: the file keeps its bytes, no
\* directory is made, nothing is logged and MunkiGit is not called.
C1_NoSilentOverwrite ==
    [][(call'.method = "new" /\ Filepath(call') \in DOMAIN files)
         => /\ ret'.status = "PlistAlreadyExistsError"
            /\ files' = files
            /\ dirs' = dirs
            /\ effects' = <<>>]_vars

\* A new with a user and a plist was refused for a file that is there.
C1_Witness ==
    /\ call.method = "new"
    /\ call.arg = Some(AsciiPlist)
    /\ call.user = Some("alice")
    /\ git
    /\ Filepath(call) \in DOMAIN files
    /\ ret.status = "PlistAlreadyExistsError"

\* C2: after a write that returned, of data that is a well-formed plist, a
\* read of the same identifier returns the parsed data, the file being new
\* or overwritten.
C2_WriteThenRead ==
    (call.method = "write" /\ ret.status = "returned" /\ ParsePlist(call.arg[1]).ok)
        => ReadOutcome(call.kind, call.pathname, "none").ret
               = Returned(ParsePlist(call.arg[1]).plist)

\* A write of a plist has returned for a file that was there before.
C2_Witness ==
    /\ call.method = "write"
    /\ ret.status = "returned"
    /\ ParsePlist(call.arg[1]).ok
    /\ ParsePlist(call.arg[1]).plist = UnicodePlist
    /\ ReadOutcome(call.kind, call.pathname, "none").ret.value = UnicodePlist
    /\ \E i \in DOMAIN effects :
           effects[i].what = "open" /\ effects[i].arg = "truncate"

\* C3: after a delete that returned, a read of the same identifier raises
\* PlistDoesNotExistError and list of its kind does not hold its pathname.
C3_DeleteThenRead ==
    (call.method = "delete" /\ ret.status = "returned")
        => /\ \A fault \in {"none", "read"} :
                  ReadOutcome(call.kind, call.pathname, fault).ret.status
                      = "PlistDoesNotExistError"
           /\ call.pathname \notin Range(ListOutcome(call.kind).ret.value)

\* A delete of a file that list would show has returned.
C3_Witness ==
    /\ call.method = "delete"
    /\ call.pathname = <<"apps", "mozilla", "Firefox">>
    /\ ret.status = "returned"
    /\ Filepath(call) \notin DOMAIN files

\* C4: in every state list returns no pathname whose last segment starts
\* with a dot and none with .svn, .git or .AppleDouble among its directories.
C4_EnumerationExclusions ==
    \A kind \in Kinds :
        \A p \in Range(ListOutcome(kind).ret.value) :
            /\ ~StartsWithDot(Basename(p))
            /\ \A i \in 1..(Len(p) - 1) : p[i] \notin {".svn", ".git", ".AppleDouble"}

\* list has returned pathnames of a kind that holds a dot file, a file under
\* .svn, one under .AppleDouble below a directory, and one under .git that
\* a call made.
C4_Witness ==
    /\ call.method = "list"
    /\ call.kind = "pkgsinfo"
    /\ Len(ret.value) >= 2
    /\ <<"repo", "pkgsinfo", ".git", "config">> \in DOMAIN files
    /\ <<"repo", "pkgsinfo", ".DS_Store">> \in DOMAIN files
    /\ <<"repo", "pkgsinfo", "munki", ".AppleDouble", "munkitools">> \in DOMAIN files

\* Whether every file system call among the effects succeeded.
NoFileSystemCallFailed(e) ==
    \A i \in DOMAIN e : e[i].what \in {"os.makedirs", "open", "write"} => e[i].ok

\* C5: new or write into a path whose parent directory is not there, with no
\* file system call failing, succeeds, and the directories afterwards are
\* those before and exactly the missing ancestors of the file.
C5_IntermediateDirectories ==
    [][(/\ call'.method \in {"new", "write"}
        /\ ~Exists(Dirname(Filepath(call')))
        /\ NoFileSystemCallFailed(effects'))
         => /\ ret'.status = "returned"
            /\ Filepath(call') \in DOMAIN files'
            /\ dirs' = dirs \cup {SubSeq(Filepath(call'), 1, i) :
                                    i \in 1..(Len(Filepath(call')) - 1)}]_vars

\* C6: a new with no plist_data that returns has written what it returns,
\* and that parses to a plist of exactly the six sections, each an empty
\* list, for manifests, and of exactly name, display_name, description,
\* version and catalogs, catalogs being ["development"], for pkgsinfo.
C6_DefaultSkeleton ==
    (call.method = "new" /\ call.arg = None /\ ret.status = "returned")
        => LET parsed == ParsePlist(ret.value) IN
           /\ files[Filepath(call)] = ret.value
           /\ parsed.ok
           /\ call.kind = "manifests"
                => /\ DOMAIN parsed.plist
                        = {"catalogs", "included_manifests", "managed_installs",
                           "managed_uninstalls", "managed_updates",
                           "optional_installs"}
                   /\ \A k \in DOMAIN parsed.plist :
                          parsed.plist[k] = [type |-> "array", body |-> <<>>]
           /\ call.kind = "pkgsinfo"
                => /\ DOMAIN parsed.plist
                        = {"name", "display_name", "description", "version",
                           "catalogs"}
                   /\ parsed.plist["catalogs"]
                        = [type |-> "array", body |-> <<<<Ascii("development")>>>>]

\* new has returned a skeleton for pkgsinfo, having made the directories
\* for it.
C6_Witness ==
    /\ call.method = "new"
    /\ call.arg = None
    /\ call.kind = "pkgsinfo"
    /\ call.pathname = <<"apps", "mozilla", "Firefox">>
    /\ ret.status = "returned"
    /\ Len(ret.value) > 4

\* Whether the call opened its file.
OpenedFile(e) == \E i \in DOMAIN e : e[i].what = "open" /\ e[i].ok

\* C7: a plist_data given to new, an empty dict too, is what new stores: a
\* new that opens its file, with no file system call failing, leaves the
\* serialization of exactly that plist in the file, and returns it when it
\* returns.
C7_GivenRecordStored ==
    (/\ call.method = "new"
     /\ call.arg # None
     /\ OpenedFile(effects)
     /\ NoFileSystemCallFailed(effects))
        => /\ files[Filepath(call)] = writePlistToString(call.arg[1])
           /\ ret.status = "returned"
                => ret.value = writePlistToString(call.arg[1])

\* C8, as claimed: a read or delete of an identifier with no file fails with
\* PlistDoesNotExistError and changes nothing: no file, no directory, no
\* log entry, no MunkiGit call.
C8_MissingTarget ==
    [][(call'.method \in {"read", "delete"} /\ Filepath(call') \notin DOMAIN files)
         => /\ ret'.status = "PlistDoesNotExistError"
            /\ files' = files
            /\ dirs' = dirs
            /\ effects' = <<>>]_vars

\* C8, amended: a read or delete of an identifier with nothing at its path,
\* neither a file nor a directory, fails with PlistDoesNotExistError and
\* changes nothing.
C8_NothingAtPath ==
    [][(/\ call'.method \in {"read", "delete"}
        /\ Filepath(call') \notin DOMAIN files
        /\ Filepath(call') \notin dirs)
         => /\ ret'.status = "PlistDoesNotExistError"
            /\ files' = files
            /\ dirs' = dirs
            /\ effects' = <<>>]_vars

\* A delete by a user, with git configured, of an identifier with nothing
\* at its path has raised PlistDoesNotExistError.
C8_Witness ==
    /\ call.method = "delete"
    /\ call.user = Some("alice")
    /\ git
    /\ ~Exists(Filepath(call))
    /\ ret.status = "PlistDoesNotExistError"
    /\ ncalls >= 2

\* C9: when the file was written or removed and MunkiGit's call then fails,
\* the call still returns to its caller, raising no PlistWriteError and no
\* PlistDeleteError, and the file stays as written or removed.
C9_RecorderFailureNotMasked ==
    \A i \in DOMAIN effects :
        (IsRecorderCall(effects[i]) /\ ~effects[i].ok)
            => /\ ret.status = "returned"
               /\ call.method = "delete" => Filepath(call) \notin DOMAIN files
               /\ call.method # "delete" => Filepath(call) \in DOMAIN files

\* The file system call that changes the file of a call has succeeded.
Mutated(c, e) ==
    \E i \in DOMAIN e :
        /\ e[i].what = (IF c.method = "delete" THEN "os.unlink" ELSE "write")
        /\ e[i].path = Filepath(c)
        /\ e[i].ok

\* C10: a call makes one MunkiGit call, add_file_at_path for new and write
\* and delete_file_at_path for delete, with its file path and user, when it
\* is a new, write or delete that has changed its file, a user is given and
\* git is configured; and makes none otherwise.
C10_RecorderGating ==
    LET calls == SelectSeq(effects, IsRecorderCall) IN
    IF /\ call.method \in {"new", "write", "delete"}
       /\ Mutated(call, effects)
       /\ call.user # None
       /\ git
    THEN /\ Len(calls) = 1
         /\ calls[1].what = (IF call.method = "delete" THEN "delete_file_at_path"
                             ELSE "add_file_at_path")
         /\ calls[1].path = Filepath(call)
         /\ calls[1].arg = call.user
    ELSE calls = <<>>

\* A delete by a user with git configured has called delete_file_at_path.
C10_Witness ==
    /\ call.method = "delete"
    /\ ret.status = "returned"
    /\ \E i \in DOMAIN effects :
           /\ effects[i].what = "delete_file_at_path"
           /\ effects[i].arg = Some("alice")

\* the file system calls a call makes on the path of a file or directory
IsFileSystemCall(e) ==
    e.what \in {"os.makedirs", "open", "write", "readPlist", "os.unlink"}

\* C11: every file system call of new, read, write and delete is on a path
\* inside REPO_DIR/kind, whatever the pathname is: an absolute pathname cannot
\* make the call read, create, overwrite or remove a file outside it.
C11_NamespaceConfinement ==
    call.method \in {"new", "read", "write", "delete"}
        => \A i \in DOMAIN effects :
               IsFileSystemCall(effects[i])
                   => IsPrefix(REPO_DIR \o <<call.kind>>, effects[i].path)

\* C12: read of a file whose content cannot be parsed returns the empty dict,
\* raises nothing and logs no error.
C12_PermissiveParse ==
    (/\ call.method = "read"
     /\ Filepath(call) \in DOMAIN files
     /\ ~ParsePlist(files[Filepath(call)]).ok
     /\ \E i \in DOMAIN effects : effects[i].what = "readPlist" /\ effects[i].ok)
        => /\ ret = Returned(<<>>)
           /\ \A i \in DOMAIN effects : effects[i].what # "LOGGER.error"

\* the error log entries among the effects of a call
ErrorsLogged(e) == {i \in DOMAIN e : e[i].what = "LOGGER.error"}

\* C13: a read that passed its existence check and whose readPlist then
\* failed, because a concurrent delete unlinked the file in between or because
\* the file cannot be opened, raises PlistReadError (not
\* PlistDoesNotExistError, not an empty dict) after one error log entry.
C13_ReadFailure ==
    \A c \in Callers :
        (/\ callers[c].method = "read"
         /\ callers[c].pc = "done"
         /\ \E i \in DOMAIN callers[c].effects :
                /\ callers[c].effects[i].what = "readPlist"
                /\ ~callers[c].effects[i].ok)
            => /\ callers[c].ret.status = "PlistReadError"
               /\ Cardinality(ErrorsLogged(callers[c].effects)) = 1

\* a read overtaken by a delete of the same identifier
C13_Witness ==
    /\ callers["request1"].method = "read"
    /\ callers["request1"].fault = "none"
    /\ callers["request1"].ret.status = "PlistReadError"
    /\ callers["request2"].method = "delete"
    /\ callers["request2"].ret.status = "returned"
    /\ Filepath(callers["request1"]) = Filepath(callers["request2"])

\* the bytes new writes for a caller
NewData(me) == writePlistToString(NewPlist(me.kind, me.arg))

\* C16: a new that passed its existence check while the file was absent, and
\* reaches its write after another caller has created the file, does not get
\* PlistAlreadyExistsError: it returns its data and the file holds that data
\* in place of what the other caller wrote.
C16_ConcurrentNew ==
    [][\A c \in Callers :
          (/\ callers[c].method = "new"
           /\ callers[c].pc = "open"
           /\ callers'[c].pc = "done"
           /\ Filepath(callers[c]) \in DOMAIN files)
              => /\ callers'[c].ret = Returned(NewData(callers[c]))
                 /\ files'[Filepath(callers[c])] = NewData(callers[c])]_vars

\* two calls of new on one identifier, both returned, the file holding what
\* the second to write wrote
C16_Witness ==
    /\ \A c \in Callers :
           callers[c].method = "new" /\ callers[c].ret.status = "returned"
    /\ Filepath(callers["request1"]) = Filepath(callers["request2"])
    /\ NewData(callers["request1"]) # NewData(callers["request2"])
    /\ \E i \in DOMAIN callers["request2"].effects :
           /\ callers["request2"].effects[i].what = "open"
           /\ callers["request2"].effects[i].arg = "truncate"
    /\ files[Filepath(callers["request2"])] = NewData(callers["request2"])

\* C17: a write does not fail with PlistWriteError once the parent directory of
\* its file is there, also when another caller made the directory between
\* this call's existence check and its os.makedirs.
C17_WriteMakesDirectories ==
    \A c \in Callers :
        (/\ callers[c].method = "write"
         /\ callers[c].pc = "done"
         /\ Dirname(Filepath(callers[c])) \in dirs)
            => callers[c].ret.status # "PlistWriteError"

\* the file system call that changes the file of a call
IsMutation(e) == e.what \in {"write", "os.unlink"} /\ e.ok

\* C14: in new, write and delete the info log entry comes right after the
\* file system mutation that succeeded and the MunkiGit call right after the
\* info log entry; a call that returns has made the mutation and logged it; so
\* nothing is logged at info and MunkiGit is not called for a mutation that
\* failed or has not happened.
C14_SideEffectOrdering ==
    call.method \in {"new", "write", "delete"}
        => /\ \A i \in DOMAIN effects :
                  effects[i].what = "LOGGER.info"
                      => i > 1 /\ IsMutation(effects[i - 1])
           /\ \A i \in DOMAIN effects :
                  IsRecorderCall(effects[i])
                      => i > 1 /\ effects[i - 1].what = "LOGGER.info"
           /\ ret.status = "returned"
                  => \E i \in DOMAIN effects :
                         /\ IsMutation(effects[i])
                         /\ i < Len(effects)
                         /\ effects[i + 1].what = "LOGGER.info"

\* a delete that unlinked, then logged, then called MunkiGit
C14_Witness ==
    /\ call.method = "delete"
    /\ ret.status = "returned"
    /\ Len(effects) = 3
    /\ effects[1].what = "os.unlink"
    /\ effects[2].what = "LOGGER.info"
    /\ effects[3].what = "delete_file_at_path"

\* the file system calls of new, write and delete that failed
FailedCalls(e) ==
    {i \in DOMAIN e : e[i].what \in {"os.makedirs", "open", "write", "os.unlink"}
                         /\ ~e[i].ok}

\* C15: when os.makedirs, open or write fails in new or write the call raises
\* PlistWriteError, and when os.unlink fails in delete the call raises
\* PlistDeleteError; one error log entry is written, the last thing the call
\* does; the call that failed is made once and no file system call is made
\* twice.
C15_TypedErrors ==
    (call.method \in {"new", "write", "delete"} /\ FailedCalls(effects) # {})
        => /\ ret.status = (IF call.method = "delete" THEN "PlistDeleteError"
                                                      ELSE "PlistWriteError")
           /\ Cardinality(ErrorsLogged(effects)) = 1
           /\ effects[Len(effects)].what = "LOGGER.error"
           /\ Cardinality(FailedCalls(effects)) = 1
           /\ \A i, j \in DOMAIN effects :
                  (IsFileSystemCall(effects[i]) /\ effects[i].what = effects[j].what)
                      => i = j

\* a write whose os.makedirs failed
C15_Witness ==
    /\ call.method = "write"
    /\ ret.status = "PlistWriteError"
    /\ Len(effects) = 2
    /\ effects[1].what = "os.makedirs" /\ ~effects[1].ok
    /\ effects[2].what = "LOGGER.error"

\* C18: when new or write has made the missing directories and the open or the
\* write of the file then fails, the call raises PlistWriteError, the
\* directories stay and there is no file at the path.
C18_NoRollback ==
    (/\ call.method \in {"new", "write"}
     /\ \E i \in DOMAIN effects : effects[i].what = "os.makedirs" /\ effects[i].ok
     /\ \E i \in DOMAIN effects : effects[i].what \in {"open", "write"}
                                       /\ ~effects[i].ok)
        => /\ ret.status = "PlistWriteError"
           /\ Dirname(Filepath(call)) \in dirs
           /\ Filepath(call) \notin DOMAIN files

\* the directory segments of a path of a file
Directories(p) == {p[i] : i \in 1..(Len(p) - 1)}

\* the paths, relative to REPO_DIR/kind, of the files list is to return
Listed(kind) ==
    LET kind_dir == REPO_DIR \o <<kind>> IN
    {SubSeq(f, Len(kind_dir) + 1, Len(f)) :
        f \in {g \in DOMAIN files :
                  /\ IsPrefix(kind_dir, g)
                  /\ ~StartsWithDot(Basename(g))
                  /\ Directories(SubSeq(g, Len(kind_dir) + 1, Len(g)))
                         \cap {".svn", ".git", ".AppleDouble"} = {}}}

\* C19: in every state list(kind) returns each of the files under
\* REPO_DIR/kind that are not hidden, once, by its path relative to
\* REPO_DIR/kind without a leading separator, and nothing else; read finds a
\* file at every path returned; nothing is returned for a kind whose directory
\* is missing; and the pathname of a new or write that has just returned, if
\* not hidden, is among the paths list then returns.
C19_EnumerationExact ==
    /\ \A kind \in Kinds :
           LET plists == ListOutcome(kind).ret.value IN
           /\ Range(plists) = Listed(kind)
           /\ Cardinality(Range(plists)) = Len(plists)
           /\ \A i \in DOMAIN plists :
                  /\ plists[i] # <<>> /\ plists[i][1] # ""
                  /\ Join(Join(REPO_DIR, <<kind>>), plists[i]) \in DOMAIN files
                  /\ ReadOutcome(kind, plists[i], "none").ret.status
                         # "PlistDoesNotExistError"
           /\ (REPO_DIR \o <<kind>>) \notin dirs => plists = <<>>
    /\ (/\ call.method \in {"new", "write"}
        /\ ret.status = "returned"
        /\ ~StartsWithDot(Basename(call.pathname))
        /\ Directories(call.pathname) \cap {".svn", ".git", ".AppleDouble"} = {})
           => call.pathname \in Range(ListOutcome(call.kind).ret.value)

\* the identifiers whose files a call may or may not touch
Identifiers ==
    {<<kind, pathname>> : kind \in Kinds,
                          pathname \in PathNames \cup {<<"munki", "munkitools">>}}

\* C20: read and list change no file and no directory and make no MunkiGit
\* call; new, write and delete on an identifier, whatever their outcome, leave
\* the file of every other identifier as it was: there or not, with the same
\* bytes.
C20_Frame ==
    [][/\ call'.method \in {"read", "list"}
           => /\ files' = files
              /\ dirs' = dirs
              /\ \A i \in DOMAIN effects' : ~IsRecorderCall(effects'[i])
       /\ call'.method \in {"new", "write", "delete"}
           => \A id \in Identifiers \ {<<call'.kind, call'.pathname>>} :
                  LET f == Join(Join(REPO_DIR, <<id[1]>>), id[2]) IN
                  /\ f \in DOMAIN files <=> f \in DOMAIN files'
                  /\ f \in DOMAIN files => files'[f] = files[f]]_vars

====
